---- MODULE Spec2Model ----
(***************************************************************************)
(* State-machine model of the ingestion / deduplication / batch-load core  *)
(* of the GitHub events pipeline:                                          *)
(*   utils/helpers.py              validate_event, generate_event_hash     *)
(*   processing/data_processor.py  DataProcessor                           *)
(*   ingestion/data_collector.py   DataCollector                           *)
(*                                                                         *)
(* Specifications:                                                         *)
(*   Spec         the DataProcessor object: connect, setup_database,       *)
(*                load_to_duckdb (one step per chunk), close               *)
(*   SpecStore    the same object with every method, run_quality_checks    *)
(*                and the storage failures of setup_database included      *)
(*   SpecRun      one run of the processing stage by each of its callers   *)
(*   SpecRecord   the record-level functions applied to one raw event      *)
(*   SpecProcess  DataProcessor.process_events, one step per event         *)
(*   SpecCollect  DataCollector.collect_github_events, one step per source *)
(***************************************************************************)
EXTENDS Integers, Sequences, FiniteSets, TLC

VARIABLES
    \* ---- DataProcessor and one load_to_duckdb call
    conn,           \* self.conn: "none" (None), "open", "closed"
    schema,         \* TRUE when table github_events exists in the database file
    store,          \* the rows of table github_events
    lpc,            \* position of load_to_duckdb: "idle", "loop", "done"
    df,             \* argument df: the sequence of rows
    batch_size,     \* argument batch_size
    i,              \* loop variable i of range(0, total_rows, batch_size)
    chunks,         \* the batches on which the upsert statement was executed
    failed,         \* TRUE when the upsert of the last batch raised
    registered,     \* TRUE while 'temp_events' is registered on the connection
    ret,            \* return value of the call: "True", "False"; "none" until it returns
    store0,         \* the table as it was when the call started
    log,            \* messages the call wrote to the logger
    indexes,        \* the indexes of the database file, in creation order
    view,           \* view daily_aggregates: "absent", "created", "replaced"
    last_call,      \* the DataProcessor call that returned last and its value;
                    \* [op |-> "none"] at the start and while a call runs
    \* ---- one raw event and the record-level functions
    event,          \* the raw event
    reordered,      \* the same event with its fields in another order
    out,            \* result of the last function applied
    \* ---- one process_events call
    events,         \* argument events
    idx,            \* number of events the for loop has consumed
    processed_events,
    skipped_events,
    ppc,            \* "loop", "done" (returned), "raised" (exception left the call)
    \* ---- one DataCollector
    target_records,
    collected_events,
    all_events,
    seen_hashes,
    cpc,            \* "idle", "repos", "archive", "done", "returned"
    repo_idx,       \* number of target repos already fetched
    archive_events, \* events of _fetch_from_github_archive
    archive_seen,   \* seen_hashes of _fetch_from_github_archive
    days_back,      \* loop variable of _fetch_from_github_archive
    archive_target, \* argument target_count
    consumed,       \* hashes of the valid events the current pass has examined
    via,            \* the method entered on the collector: "none",
                    \* "collect_github_events", "collect_sample_data"
    real_events,    \* real_events of collect_sample_data
    fresh,          \* TRUE until a call on the collector has returned
    \* ---- one run of the processing stage by one of its callers
    caller,         \* "main", "pipeline", "data_processor"; "none" outside a run
    rpc,            \* position of the run
    feed,           \* the raw events the sources deliver to the run
    trace,          \* the DataProcessor calls of the run, with their results
    run_ret,        \* the value the run returned
    outcome,        \* what the caller made of the run: "failed", "continues"
    stages,         \* the steps main() of main.py has run, with their results
    main_ret,       \* the value main() returned: "True", "False"; "none" before
    \* ---- a second DataProcessor, of another run, on the same database file
    other_conn,     \* its self.conn
    other_lpc,      \* position of its load_to_duckdb: "idle", "loop", "done"
    other_df,       \* argument df of its call
    other_batch_size,
    other_i,        \* its loop variable i
    other_chunks,   \* the batches on which its upsert statement was executed
    other_ret       \* return value of its call

loaderVars == <<conn, schema, store, lpc, df, batch_size, i, chunks, failed,
                 registered, ret, store0, log, indexes, view, last_call>>
recordVars == <<event, reordered, out>>
processVars == <<events, idx, processed_events, skipped_events, ppc>>
collectVars == <<target_records, collected_events, all_events, seen_hashes, cpc,
                 repo_idx, archive_events, archive_seen, days_back,
                 archive_target, consumed, via, real_events, fresh>>
runVars == <<caller, rpc, feed, trace, run_ret, outcome, stages, main_ret>>
otherVars == <<other_conn, other_lpc, other_df, other_batch_size, other_i,
               other_chunks, other_ret>>
vars == <<loaderVars, recordVars, otherVars, processVars, collectVars, runVars>>

(***************************************************************************)
(* Bounds of the model.                                                    *)
(***************************************************************************)
MaxRows == 3        \* longest df passed to load_to_duckdb
MaxBatch == 2       \* largest batch_size passed to load_to_duckdb
MaxEvents == 3      \* longest list passed to process_events
MaxTarget == 2      \* largest target_records of a DataCollector
MaxFeed == 2        \* most events one source returns
NumRepos == 2       \* number of target repositories fetched
MaxStoreRows == 2   \* rows of one load_to_duckdb call under SpecStore

Min(a, b) == IF a < b THEN a ELSE b

RECURSIVE Flatten(_)
Flatten(ss) == IF ss = <<>> THEN <<>> ELSE Head(ss) \o Flatten(Tail(ss))

Last(s) == s[Len(s)]
Front(s) == SubSeq(s, 1, Len(s) - 1)

SeqsUpTo(S, n) == UNION {[1..k -> S] : k \in 0..n}

(***************************************************************************)
(* The table github_events.  A row is keyed by event_id; event_type stands *)
(* for the fourteen non-key columns.                                       *)
(***************************************************************************)
EventIds == {"1", "2"}
EventTypes == {"PushEvent", "WatchEvent"}
Rows == [event_id : EventIds, event_type : EventTypes]

\* INSERT OR IGNORE: a mutant of UpsertRow that keeps the stored row
InsertOrIgnoreRow(s, r) ==
    IF \E x \in s : x.event_id = r.event_id THEN s ELSE s \cup {r}

\* INSERT INTO a table without a key: a mutant of UpsertRow that keeps both rows
InsertRow(s, r) == s \cup {r}

\* INSERT OR REPLACE INTO github_events, for one row of the batch, against
\* event_id STRING PRIMARY KEY
UpsertRow(s, r) == {x \in s : x.event_id # r.event_id} \cup {r}

\* a statement that keeps the rows already stored: a mutant of UpsertBatch
RECURSIVE InsertOrIgnoreBatch(_, _)
InsertOrIgnoreBatch(s, batch) ==
    IF batch = <<>> THEN s
    ELSE InsertOrIgnoreBatch(InsertOrIgnoreRow(s, Head(batch)), Tail(batch))

\* INSERT OR REPLACE INTO github_events SELECT * FROM temp_events, when the
\* statement succeeds
RECURSIVE UpsertBatch(_, _)
UpsertBatch(s, batch) ==
    IF batch = <<>> THEN s
    ELSE UpsertBatch(UpsertRow(s, Head(batch)), Tail(batch))

\* a failed statement that keeps its first row: a mutant of FailedUpsert
FailedUpsertPartial(s, batch) == UpsertRow(s, Head(batch))

\* the same statement when it raises: the statement is one transaction of the
\* connection (autocommit), so none of its rows is stored
FailedUpsert(s, batch) == s

\* a slice counted from the end of the frame: a mutant of Batch
BatchFromEnd(rows, k, B) ==
    SubSeq(rows, (IF Len(rows) - k - B > 0 THEN Len(rows) - k - B ELSE 0) + 1,
           Len(rows) - k)

\* a slice that loses its last row: a mutant of Batch
BatchShort(rows, k, B) == SubSeq(rows, k + 1, Min(k + B, Len(rows)) - 1)

\* batch = df.iloc[i:i + batch_size]
Batch(rows, k, B) == SubSeq(rows, k + 1, Min(k + B, Len(rows)))

\* a check that lets an empty frame through: a mutant of IsEmpty
NeverEmpty(rows) == FALSE

\* df.empty
IsEmpty(rows) == Len(rows) = 0

\* a handler that reports success: a mutant of ReturnOnError
ReturnOnErrorTrue == "True"

\* except Exception as e: logger.error(...); return False
ReturnOnError == "False"

\* (i + len(batch)) % 50000 == 0: the interval of the progress message
ProgressEvery == 50000

MsgLoading(n) == [msg |-> "Loading rows to DuckDB", n |-> n]
MsgLoaded(n) == [msg |-> "Loaded rows", n |-> n]
MsgSuccess(n) == [msg |-> "Successfully loaded rows to DuckDB", n |-> n]
MsgNotConnected == [msg |-> "Not connected to database"]
MsgNoData == [msg |-> "No data to load"]
MsgError == [msg |-> "Error loading to DuckDB"]

\* the value of last_call
NoCall == [op |-> "none"]
Call(op, res) == [op |-> op, res |-> res]

LoaderInit ==
    /\ conn = "none"
    /\ schema = FALSE
    /\ store = {}
    /\ lpc = "idle"
    /\ df = <<>>
    /\ batch_size = 1
    /\ i = 0
    /\ chunks = <<>>
    /\ failed = FALSE
    /\ registered = FALSE
    /\ ret = "none"
    /\ store0 = {}
    /\ log = <<>>
    /\ indexes = <<>>
    /\ view = "absent"
    /\ last_call = NoCall

\* DataProcessor.connect: duckdb.connect opens the file, or raises
connect ==
    /\ lpc = "idle"
    /\ \/ /\ conn' = "open"
          /\ registered' = FALSE
          /\ last_call' = Call("connect", "True")
       \/ /\ UNCHANGED <<conn, registered>>
          /\ last_call' = Call("connect", "False")
    /\ UNCHANGED <<schema, store, df, batch_size, i, chunks, failed,
                   ret, store0, log, lpc, indexes, view>>
    /\ UNCHANGED <<recordVars, otherVars, processVars, collectVars>>

\* The statements of setup_database, in the order of execution.  Each takes
\* the database [table, rows, indexes, view] and gives [ok, cat]: ok is FALSE
\* when the engine rejects the statement, and cat is then the database
\* unchanged.
IndexNames == <<"idx_event_type", "idx_repo_name", "idx_created_at",
                "idx_actor_login">>
SetupStatements == <<"table">> \o IndexNames \o <<"view">>

Catalog == [table |-> schema, rows |-> store, indexes |-> indexes, view |-> view]

\* CREATE OR REPLACE TABLE, which drops the table with its rows and indexes: a
\* mutant of CreateTableIfNotExists
CreateOrReplaceTable(cat) ==
    [ok |-> TRUE, cat |-> [cat EXCEPT !.table = TRUE, !.rows = {}, !.indexes = <<>>]]

\* CREATE INDEX without IF NOT EXISTS, which refuses a name that exists: a
\* mutant of CreateIndexIfNotExists
CreateIndex(cat, name) ==
    IF ~cat.table \/ \E k \in 1..Len(cat.indexes) : cat.indexes[k] = name
      THEN [ok |-> FALSE, cat |-> cat]
      ELSE [ok |-> TRUE, cat |-> [cat EXCEPT !.indexes = Append(@, name)]]

\* CREATE TABLE IF NOT EXISTS github_events
CreateTableIfNotExists(cat) == [ok |-> TRUE, cat |-> [cat EXCEPT !.table = TRUE]]

\* CREATE INDEX IF NOT EXISTS name ON github_events(...)
CreateIndexIfNotExists(cat, name) ==
    IF ~cat.table THEN [ok |-> FALSE, cat |-> cat]
    ELSE IF \E k \in 1..Len(cat.indexes) : cat.indexes[k] = name
      THEN [ok |-> TRUE, cat |-> cat]
      ELSE [ok |-> TRUE, cat |-> [cat EXCEPT !.indexes = Append(@, name)]]

\* CREATE OR REPLACE VIEW daily_aggregates: a view of that name is dropped and
\* the view is created anew
CreateOrReplaceView(cat) ==
    IF ~cat.table THEN [ok |-> FALSE, cat |-> cat]
    ELSE [ok |-> TRUE,
          cat |-> [cat EXCEPT !.view = IF @ = "absent" THEN "created"
                                                       ELSE "replaced"]]

Execute(cat, stmt) ==
    IF stmt = "table" THEN CreateTableIfNotExists(cat)
    ELSE IF stmt = "view" THEN CreateOrReplaceView(cat)
    ELSE CreateIndexIfNotExists(cat, stmt)

\* the statements stmts executed in order until one is rejected
RECURSIVE ExecuteAll(_, _)
ExecuteAll(cat, stmts) ==
    IF stmts = <<>> THEN [ok |-> TRUE, cat |-> cat]
    ELSE LET r == Execute(cat, Head(stmts))
         IN  IF r.ok THEN ExecuteAll(r.cat, Tail(stmts)) ELSE r

\* DataProcessor.setup_database with a storage that works: every statement is
\* executed and answers by its own semantics
setup_database ==
    /\ lpc = "idle"
    /\ IF conn = "open"
         THEN LET r == ExecuteAll(Catalog, SetupStatements)
              IN  /\ schema' = r.cat.table
                  /\ store' = r.cat.rows
                  /\ indexes' = r.cat.indexes
                  /\ view' = r.cat.view
                  /\ last_call' = Call("setup_database",
                                       IF r.ok THEN "True" ELSE "False")
         ELSE \* `if not self.conn`, or execute raising on a closed connection
              /\ UNCHANGED <<schema, store, indexes, view>>
              /\ last_call' = Call("setup_database", "False")
    /\ UNCHANGED <<conn, df, batch_size, i, chunks, failed, registered,
                   ret, store0, log, lpc>>
    /\ UNCHANGED <<recordVars, otherVars, processVars, collectVars>>

\* DataProcessor.setup_database when the storage fails under one of the
\* statements: the statements before it stay executed (each is committed on
\* its own), the except branch returns False
setup_database_error ==
    /\ lpc = "idle"
    /\ conn = "open"
    /\ \E n \in 0..(Len(SetupStatements) - 1) :
         LET r == ExecuteAll(Catalog, SubSeq(SetupStatements, 1, n))
         IN  /\ schema' = r.cat.table
             /\ store' = r.cat.rows
             /\ indexes' = r.cat.indexes
             /\ view' = r.cat.view
    /\ last_call' = Call("setup_database", "False")
    /\ UNCHANGED <<conn, df, batch_size, i, chunks, failed, registered,
                   ret, store0, log, lpc>>
    /\ UNCHANGED <<recordVars, otherVars, processVars, collectVars>>

\* the report of run_quality_checks over the rows of the table
ReportKeys == {"total_events", "events_by_type", "date_range", "unique_counts"}
\* the values of column c that are not NULL; a row of the model that does not
\* carry the column holds NULL in it
ColumnValues(rows, c) == {r[c] : r \in {x \in rows : c \in DOMAIN x}}

\* COUNT(c), which counts every row whose c is not NULL: a mutant of
\* CountDistinct
CountNotNull(rows, c) == Cardinality({x \in rows : c \in DOMAIN x})

\* COUNT(DISTINCT c)
CountDistinct(rows, c) == Cardinality(ColumnValues(rows, c))

\* the place of a timestamp on the time line, in hours
Instant(ts) == ((ts.year * 12 + ts.month) * 31 + ts.day) * 24 + ts.hour - ts.utcoffset

\* the NULL of a TIMESTAMP column, read by pandas as NaT
NullTimestamp == [nat |-> TRUE]

\* SELECT MIN(created_at), MAX(created_at): (NULL, NULL) on an empty table
DateRange(rows) ==
    LET cs == ColumnValues(rows, "created_at")
    IN  IF cs = {} THEN <<NullTimestamp, NullTimestamp>>
        ELSE <<CHOOSE x \in cs : \A y \in cs : Instant(x) <= Instant(y),
               CHOOSE x \in cs : \A y \in cs : Instant(x) >= Instant(y)>>

QualityReport(rows) ==
    [t |-> "report", keys |-> ReportKeys,
     total_events |-> Cardinality(rows),
     events_by_type |-> [ty \in {r.event_type : r \in rows} |->
                            Cardinality({r \in rows : r.event_type = ty})],
     date_range |-> DateRange(rows),
     unique_counts |-> [repos |-> CountDistinct(rows, "repo_name"),
                        actors |-> CountDistinct(rows, "actor_login"),
                        event_types |-> CountDistinct(rows, "event_type")]]
\* {}
EmptyReport == [t |-> "report", keys |-> {}]

\* DataProcessor.run_quality_checks: the four queries, read-only; {} when there
\* is no connection or a query raises
run_quality_checks ==
    /\ lpc = "idle"
    /\ \/ /\ conn = "open"
          /\ schema
          /\ last_call' = Call("run_quality_checks", QualityReport(store))
       \/ last_call' = Call("run_quality_checks", EmptyReport)
    /\ UNCHANGED <<conn, schema, store, df, batch_size, i, chunks, failed,
                   registered, ret, store0, log, lpc, indexes, view>>
    /\ UNCHANGED <<recordVars, otherVars, processVars, collectVars>>

\* DataProcessor.close: `if self.conn: self.conn.close()`
close ==
    /\ lpc = "idle"
    /\ conn' = IF conn = "open" THEN "closed" ELSE conn
    /\ registered' = IF conn = "open" THEN FALSE ELSE registered
    /\ last_call' = Call("close", "None")
    /\ UNCHANGED <<schema, store, df, batch_size, i, chunks, failed, ret, store0,
                   log, lpc, indexes, view>>
    /\ UNCHANGED <<recordVars, otherVars, processVars, collectVars>>

\* load_to_duckdb(rows, B): entry, the two guards, total_rows = len(df)
load_to_duckdb(rows, B) ==
    /\ lpc = "idle"
    /\ df' = rows
    /\ batch_size' = B
    /\ i' = 0
    /\ chunks' = <<>>
    /\ failed' = FALSE
    /\ store0' = store
    /\ last_call' = NoCall
    /\ IF conn = "none"
         THEN /\ lpc' = "done"
              /\ ret' = "False"
              /\ log' = <<MsgNotConnected>>
         ELSE IF IsEmpty(rows)
         THEN /\ lpc' = "done"
              /\ ret' = "False"
              /\ log' = <<MsgNoData>>
         ELSE /\ lpc' = "loop"
              /\ ret' = "none"
              /\ log' = <<MsgLoading(Len(rows))>>
    /\ UNCHANGED <<conn, schema, store, registered, indexes, view>>
    /\ UNCHANGED <<recordVars, otherVars, processVars, collectVars>>

\* one iteration of the for loop whose statements all succeed: register, INSERT
\* OR REPLACE, unregister.  The rows of the batch are applied in order; an
\* engine that rejects a batch carrying one key twice takes LoadChunkFail.
LoadChunk ==
    /\ lpc = "loop"
    /\ i < Len(df)
    /\ conn = "open"
    /\ schema
    /\ LET batch == Batch(df, i, batch_size) IN
        /\ chunks' = Append(chunks, batch)
        /\ store' = UpsertBatch(store, batch)
        /\ registered' = FALSE
        /\ i' = i + batch_size
        /\ log' = IF (i + Len(batch)) % ProgressEvery = 0
                    THEN Append(log, MsgLoaded(i + Len(batch)))
                    ELSE log
    /\ UNCHANGED <<conn, schema, df, batch_size, failed, ret, store0, lpc>>
    /\ UNCHANGED <<indexes, view, last_call>>
    /\ UNCHANGED <<recordVars, otherVars, processVars, collectVars, runVars>>

\* one iteration in which conn.register raises (the connection is closed):
\* nothing is registered, no statement runs
LoadRegisterFail ==
    /\ lpc = "loop"
    /\ i < Len(df)
    /\ conn = "closed"
    /\ lpc' = "done"
    /\ ret' = ReturnOnError
    /\ log' = Append(log, MsgError)
    /\ UNCHANGED <<conn, schema, store, df, batch_size, i, chunks, failed,
                   registered, store0>>
    /\ UNCHANGED <<indexes, view, last_call>>
    /\ UNCHANGED <<recordVars, otherVars, processVars, collectVars, runVars>>

\* one iteration in which the INSERT OR REPLACE statement raises: the table is
\* missing, the storage fails, or the engine rejects a batch that carries
\* one key twice
LoadChunkFail ==
    /\ lpc = "loop"
    /\ i < Len(df)
    /\ conn = "open"
    /\ LET batch == Batch(df, i, batch_size) IN
        /\ chunks' = Append(chunks, batch)
        /\ store' = FailedUpsert(store, batch)
    /\ registered' = TRUE
    /\ failed' = TRUE
    /\ lpc' = "done"
    /\ ret' = ReturnOnError
    /\ log' = Append(log, MsgError)
    /\ UNCHANGED <<conn, schema, df, batch_size, i, store0>>
    /\ UNCHANGED <<indexes, view, last_call>>
    /\ UNCHANGED <<recordVars, otherVars, processVars, collectVars, runVars>>

\* the loop is over: logger.info("Successfully loaded ..."); return True
LoadFinish ==
    /\ lpc = "loop"
    /\ i >= Len(df)
    /\ lpc' = "done"
    /\ ret' = "True"
    /\ log' = Append(log, MsgSuccess(Len(df)))
    /\ UNCHANGED <<conn, schema, store, df, batch_size, i, chunks, failed,
                   registered, store0>>
    /\ UNCHANGED <<indexes, view, last_call>>
    /\ UNCHANGED <<recordVars, otherVars, processVars, collectVars, runVars>>

\* the caller has the result and the frame of the call is gone; the processor
\* is free for the next call
load_return ==
    /\ lpc = "done"
    /\ lpc' = "idle"
    /\ df' = <<>>
    /\ batch_size' = 1
    /\ i' = 0
    /\ chunks' = <<>>
    /\ failed' = FALSE
    /\ store0' = {}
    /\ log' = <<>>
    /\ ret' = "none"
    /\ last_call' = Call("load_to_duckdb", ret)
    /\ UNCHANGED <<conn, schema, store, registered, indexes, view>>
    /\ UNCHANGED <<recordVars, otherVars, processVars, collectVars>>

\* The calls of a client that uses one DataProcessor in any order.
CallConnect == connect /\ UNCHANGED runVars
CallSetup == setup_database /\ UNCHANGED runVars
CallSetupError == setup_database_error /\ UNCHANGED runVars
CallQualityChecks == run_quality_checks /\ UNCHANGED runVars
CallClose == close /\ UNCHANGED runVars
LoadCall ==
    /\ \E rows \in SeqsUpTo(Rows, MaxRows), B \in 1..MaxBatch :
         load_to_duckdb(rows, B)
    /\ UNCHANGED runVars
LoadReturn == load_return /\ UNCHANGED runVars
\* a load of few rows, for the specification that follows the database
StoreLoadCall ==
    /\ \E rows \in SeqsUpTo(Rows, MaxStoreRows), B \in 1..MaxBatch :
         load_to_duckdb(rows, B)
    /\ UNCHANGED runVars

(***************************************************************************)
(* Raw events.  A Python value is a tagged record: a string, None, or a    *)
(* dict; a dict keeps its items in insertion order.                        *)
(***************************************************************************)
Str(s) == [t |-> "str", s |-> s]
None == [t |-> "none"]
Dict(d) == [t |-> "dict", d |-> d]
Bool(b) == [t |-> "bool", b |-> b]
Item(k, v) == [k |-> k, v |-> v]

IsDict(v) == v.t = "dict"
HasKey(v, k) == \E j \in 1..Len(v.d) : v.d[j].k = k
\* dict.get(k, default)
Get(v, k, default) ==
    IF HasKey(v, k)
      THEN (v.d[CHOOSE j \in 1..Len(v.d) : v.d[j].k = k]).v
      ELSE default

\* the results of a call: a returned value, or an exception leaving the call
Returned(x) == [raised |-> FALSE, ret |-> x]
Raised(e) == [raised |-> TRUE, exc |-> e]

\* required_fields with 'actor' left out: a mutant of required_fields
required_fields_short == <<"id", "type", "repo", "created_at">>

required_fields == <<"id", "type", "repo", "actor", "created_at">>

\* for field in required_fields: if field not in event: return False
RECURSIVE AllFieldsIn(_, _)
AllFieldsIn(fields, ev) ==
    IF fields = <<>> THEN TRUE
    ELSE IF ~HasKey(ev, Head(fields)) THEN FALSE
    ELSE AllFieldsIn(Tail(fields), ev)

\* validate_event(event).  `field not in event` raises TypeError when event
\* is None.
validate_event(ev) ==
    IF ev.t = "none" THEN Raised("TypeError")
    ELSE IF ev.t = "str" THEN Returned("False")
    ELSE IF ~AllFieldsIn(required_fields, ev) THEN Returned("False")
    ELSE IF ~IsDict(Get(ev, "repo", None)) \/ ~HasKey(Get(ev, "repo", None), "name")
      THEN Returned("False")
    ELSE Returned("True")

(***************************************************************************)
(* generate_event_hash: json.dumps(event, sort_keys=True), then md5.       *)
(* The JSON text is a sequence of tokens.                                  *)
(***************************************************************************)
\* the keys of the model in the order Python compares strings
SortedKeys == <<"actor", "created_at", "id", "login", "name", "org", "payload",
                "public", "repo", "type">>
KeyRank(k) == CHOOSE j \in 1..Len(SortedKeys) : SortedKeys[j] = k

\* sorted(items, key) by insertion: the items of a dict in key order
RECURSIVE InsertSorted(_, _)
InsertSorted(it, sorted) ==
    IF sorted = <<>> THEN <<it>>
    ELSE IF KeyRank(it.k) < KeyRank(Head(sorted).k) THEN <<it>> \o sorted
    ELSE <<Head(sorted)>> \o InsertSorted(it, Tail(sorted))

RECURSIVE SortItems(_)
SortItems(d) ==
    IF d = <<>> THEN <<>> ELSE InsertSorted(Head(d), SortItems(Tail(d)))

\* sort_keys=False: a mutant of ItemOrder
InsertionOrder(d, sort_keys) == d

\* the order in which json.dumps writes the items of a dict
ItemOrder(d, sort_keys) == IF sort_keys THEN SortItems(d) ELSE d

RECURSIVE json_dumps(_, _), DumpItems(_, _)
\* json.dumps(v, sort_keys=sort_keys)
json_dumps(v, sort_keys) ==
    IF v.t = "none" THEN <<"null">>
    ELSE IF v.t = "bool" THEN (IF v.b THEN <<"true">> ELSE <<"false">>)
    ELSE IF v.t = "str" THEN <<"\"", v.s, "\"">>
    ELSE <<"{">> \o DumpItems(ItemOrder(v.d, sort_keys), sort_keys) \o <<"}">>

DumpItems(d, sort_keys) ==
    IF d = <<>> THEN <<>>
    ELSE <<"\"", Head(d).k, "\"", ": ">> \o json_dumps(Head(d).v, sort_keys)
         \o (IF Len(d) > 1 THEN <<", ">> ELSE <<>>)
         \o DumpItems(Tail(d), sort_keys)

\* hashlib.md5(text).hexdigest(): a digest that tells any two texts apart
md5(text) == <<"md5">> \o text

\* generate_event_hash(event)
generate_event_hash(ev) == md5(json_dumps(ev, TRUE))

(***************************************************************************)
(* Timestamps.  pd.to_datetime(s, errors='coerce') on the created_at texts *)
(* of the model: the wall-clock fields and the UTC offset (hours) written  *)
(* in the text, or NaT.                                                    *)
(***************************************************************************)
NaT == [nat |-> TRUE]
Timestamp(y, mo, d, h, off) ==
    [nat |-> FALSE, year |-> y, month |-> mo, day |-> d, hour |-> h, utcoffset |-> off]

\* a parser that falls back to a fixed instant: a mutant of to_datetime
to_datetime_lenient(v) == Timestamp(1970, 1, 1, 0, 0)

\* pd.to_datetime(v, errors='coerce')
to_datetime(v) ==
    IF v.t # "str" THEN NaT
    ELSE IF v.s = "2024-01-01T10:00:00Z" THEN Timestamp(2024, 1, 1, 10, 0)
    ELSE IF v.s = "2024-03-02T23:30:00Z" THEN Timestamp(2024, 3, 2, 23, 0)
    ELSE IF v.s = "2024-01-01T01:00:00+02:00" THEN Timestamp(2024, 1, 1, 1, 2)
    ELSE NaT

\* pd.isna(created_at)
isna(ts) == ts.nat

\* the hour of the Timestamp moved to UTC: a mutant of HourOf
HourOfUTC(ts) == (ts.hour - ts.utcoffset) % 24

\* Timestamp.hour: the hour written in the Timestamp's own zone
HourOf(ts) == ts.hour

\* Timestamp.year
YearOf(ts) == ts.year

\* Timestamp.strftime('%A'): the weekday name of the wall-clock date
DayNames == <<"Sunday", "Monday", "Tuesday", "Wednesday", "Thursday", "Friday",
              "Saturday">>
MonthShift == <<0, 3, 2, 5, 0, 3, 5, 1, 4, 6, 2, 4>>
DayOfWeek(ts) ==
    LET y == IF ts.month < 3 THEN ts.year - 1 ELSE ts.year
    IN  DayNames[((y + (y \div 4) - (y \div 100) + (y \div 400)
                   + MonthShift[ts.month] + ts.day) % 7) + 1]

\* Timestamp.strftime('%Y-%m')
YearMonth(ts) == <<ts.year, ts.month>>

(***************************************************************************)
(* Strings whose characters matter: repo names.                            *)
(***************************************************************************)
Chars(s) ==
    IF s = "a/b" THEN <<"a", "/", "b">>
    ELSE IF s = "o/r/x" THEN <<"o", "/", "r", "/", "x">>
    ELSE IF s = "solo" THEN <<"s", "o", "l", "o">>
    ELSE <<>>

\* '/' in repo_name
Contains(cs, c) == \E j \in 1..Len(cs) : cs[j] = c

\* the text before the last c: a mutant of SplitFirst
SplitLast(cs, c) ==
    IF Contains(cs, c)
      THEN SubSeq(cs, 1, (CHOOSE j \in 1..Len(cs) :
                            cs[j] = c /\ \A k \in (j + 1)..Len(cs) : cs[k] # c) - 1)
      ELSE cs

\* repo_name.split('/')[0]
SplitFirst(cs, c) ==
    IF Contains(cs, c)
      THEN SubSeq(cs, 1, (CHOOSE j \in 1..Len(cs) :
                            cs[j] = c /\ \A k \in 1..(j - 1) : cs[k] # c) - 1)
      ELSE cs

(***************************************************************************)
(* DataProcessor._transform_event.  The whole body runs inside             *)
(* try/except Exception: an exception raised by any statement is logged    *)
(* and the function returns None.                                          *)
(***************************************************************************)
\* str(x)
PyStr(v) ==
    IF v.t = "str" THEN v.s
    ELSE IF v.t = "none" THEN "None"
    ELSE IF v.t = "bool" THEN (IF v.b THEN "True" ELSE "False")
    ELSE "{...}"

_transform_event(ev, now) ==
    IF ~IsDict(ev) THEN Returned(None)                 \* event.get: AttributeError
    ELSE IF ~IsDict(Get(ev, "repo", Dict(<<>>))) THEN Returned(None)  \* .get('name')
    ELSE LET repo_name == Get(Get(ev, "repo", Dict(<<>>)), "name", Str(""))
             created_at == to_datetime(Get(ev, "created_at", Str("")))
             actor == Get(ev, "actor", Dict(<<>>))
             org == Get(ev, "org", Dict(<<>>))
         IN  IF isna(created_at) THEN Returned(None)
             ELSE IF repo_name.t # "str" THEN Returned(None)   \* '/' in repo_name
             ELSE IF ~IsDict(actor) \/ ~IsDict(org) THEN Returned(None)
             ELSE Returned(
                 [event_id |-> PyStr(Get(ev, "id", Str(""))),
                  event_type |-> Get(ev, "type", Str("")),
                  repo_name |-> repo_name.s,
                  repo_owner |-> IF Contains(Chars(repo_name.s), "/")
                                   THEN SplitFirst(Chars(repo_name.s), "/")
                                   ELSE <<>>,
                  actor_login |-> Get(actor, "login", Str("")),
                  org_login |-> Get(org, "login", Str("")),
                  created_at |-> created_at,
                  is_public |-> Get(ev, "public", Bool(TRUE)),
                  payload |-> json_dumps(Get(ev, "payload", Dict(<<>>)), FALSE),
                  raw_event |-> json_dumps(ev, FALSE),
                  processed_at |-> now,
                  hour_of_day |-> HourOf(created_at),
                  day_of_week |-> DayOfWeek(created_at),
                  month |-> YearMonth(created_at),
                  year |-> YearOf(created_at)])

(***************************************************************************)
(* SpecRecord: the record-level functions on one raw event.                *)
(***************************************************************************)
\* the values a field of a raw event takes in the model; "absent" leaves the
\* key out
Absent == [t |-> "absent"]
IdChoices == {Absent, Str("1")}
TypeChoices == {Absent, Str("PushEvent")}
RepoChoices == {Absent, Str("a/b"), Dict(<<Item("id", Str("7"))>>),
                Dict(<<Item("name", Str("a/b")), Item("id", Str("7"))>>),
                Dict(<<Item("name", Str("solo"))>>),
                Dict(<<Item("name", Str("o/r/x"))>>)}
ActorChoices == {Absent, None, Dict(<<Item("login", Str("u"))>>)}
CreatedAtChoices == {Absent, None, Str("not-a-date"), Str("2024-01-01T10:00:00Z"),
                     Str("2024-03-02T23:30:00Z"), Str("2024-01-01T01:00:00+02:00")}

IsPresent(it) == it.v.t # "absent"
MakeEvent(id, type, repo, actor, created_at) ==
    Dict(SelectSeq(<<Item("id", id), Item("type", type), Item("repo", repo),
                     Item("actor", actor), Item("created_at", created_at)>>,
                   IsPresent))

RawEvents ==
    {MakeEvent(a, b, c, d, e) : a \in IdChoices, b \in TypeChoices, c \in RepoChoices,
                                d \in ActorChoices, e \in CreatedAtChoices}
    \cup {None}

\* the readings of the clock
Clock == {100, 101}

Perms(n) == {p \in [1..n -> 1..n] : \A a, b \in 1..n : a # b => p[a] # p[b]}

\* every value that is v with the items of its dicts, at any depth, in
\* another order
RECURSIVE Reorderings(_), ItemChoices(_)
Reorderings(v) ==
    IF v.t # "dict" THEN {v}
    ELSE {Dict([j \in 1..Len(v.d) |-> c[p[j]]]) :
             p \in Perms(Len(v.d)), c \in ItemChoices(v.d)}

\* the items d, in the same order, each value in one of its reorderings
ItemChoices(d) ==
    IF d = <<>> THEN {<<>>}
    ELSE {<<Item(Head(d).k, rv)>> \o rest :
             rv \in Reorderings(Head(d).v), rest \in ItemChoices(Tail(d))}

RecordInit ==
    /\ event \in RawEvents
    /\ reordered = event
    /\ out = [op |-> "none"]

Reorder ==
    /\ reordered = event
    /\ out.op = "none"
    /\ reordered' \in Reorderings(event)
    /\ UNCHANGED <<event, out>>
    /\ UNCHANGED <<loaderVars, processVars, collectVars, runVars, otherVars>>

Validate ==
    /\ out' = [op |-> "validate", res |-> validate_event(event)]
    /\ UNCHANGED <<event, reordered>>
    /\ UNCHANGED <<loaderVars, processVars, collectVars, runVars, otherVars>>

TransformEvent ==
    /\ \E now \in Clock :
         out' = [op |-> "transform", res |-> _transform_event(event, now)]
    /\ UNCHANGED <<event, reordered>>
    /\ UNCHANGED <<loaderVars, processVars, collectVars, runVars, otherVars>>

Hash ==
    /\ out' = [op |-> "hash", h |-> generate_event_hash(event),
               hr |-> generate_event_hash(reordered)]
    /\ UNCHANGED <<event, reordered>>
    /\ UNCHANGED <<loaderVars, processVars, collectVars, runVars, otherVars>>

(***************************************************************************)
(* SpecProcess: DataProcessor.process_events, one event per step.          *)
(***************************************************************************)
GoodActor == Dict(<<Item("login", Str("u"))>>)
GoodRepo == Dict(<<Item("name", Str("a/b")), Item("id", Str("7"))>>)
SampleEvents ==
    {MakeEvent(Str("1"), Str("PushEvent"), GoodRepo, GoodActor,
               Str("2024-01-01T10:00:00Z")),
     MakeEvent(Str("1"), Str("PushEvent"), GoodRepo, GoodActor,
               Str("2024-01-01T01:00:00+02:00")),
     MakeEvent(Str("1"), Str("PushEvent"), GoodRepo, GoodActor, Str("not-a-date")),
     MakeEvent(Str("1"), Str("PushEvent"), GoodRepo, Absent,
               Str("2024-01-01T10:00:00Z")),
     MakeEvent(Str("1"), Str("PushEvent"), GoodRepo, None,
               Str("2024-01-01T10:00:00Z")),
     None}

ProcessInit ==
    /\ events \in SeqsUpTo(SampleEvents, MaxEvents)
    /\ idx = 0
    /\ processed_events = <<>>
    /\ skipped_events = 0
    /\ ppc = "loop"

\* one iteration of `for event in events`
ProcessStep ==
    /\ ppc = "loop"
    /\ idx < Len(events)
    /\ idx' = idx + 1
    /\ LET ev == events[idx + 1]
           valid == validate_event(ev)
       IN  IF valid.raised
             THEN \* except Exception: logger.warning(f"... {event.get('id')}")
                  IF IsDict(ev)
                    THEN /\ skipped_events' = skipped_events + 1
                         /\ UNCHANGED <<processed_events, ppc>>
                    ELSE /\ ppc' = "raised"
                         /\ UNCHANGED <<processed_events, skipped_events>>
           ELSE IF valid.ret = "False"
             THEN /\ skipped_events' = skipped_events + 1
                  /\ UNCHANGED <<processed_events, ppc>>
           ELSE \E now \in Clock :
                  LET processed == _transform_event(ev, now).ret
                  IN  /\ processed_events' =
                           IF processed # None THEN Append(processed_events, processed)
                                               ELSE processed_events
                      /\ UNCHANGED <<skipped_events, ppc>>
    /\ UNCHANGED events
    /\ UNCHANGED <<loaderVars, recordVars, otherVars, collectVars, runVars>>

\* the loop is over: the DataFrame of processed_events is returned
ProcessReturn ==
    /\ ppc = "loop"
    /\ idx = Len(events)
    /\ ppc' = "done"
    /\ UNCHANGED <<events, idx, processed_events, skipped_events>>
    /\ UNCHANGED <<loaderVars, recordVars, otherVars, collectVars, runVars>>

(***************************************************************************)
(* SpecCollect: DataCollector.collect_github_events, one source per step.  *)
(***************************************************************************)
\* for days_back in range(3)
ArchiveDays == 3

FeedEvents ==
    {MakeEvent(Str("1"), Str("PushEvent"), GoodRepo, GoodActor,
               Str("2024-01-01T10:00:00Z")),
     Dict(<<Item("created_at", Str("2024-01-01T10:00:00Z")), Item("actor", GoodActor),
            Item("repo", GoodRepo), Item("type", Str("PushEvent")),
            Item("id", Str("1"))>>),
     MakeEvent(Str("2"), Str("WatchEvent"), GoodRepo, GoodActor,
               Str("2024-01-01T10:00:00Z")),
     MakeEvent(Str("2"), Str("WatchEvent"), GoodRepo, Absent,
               Str("2024-01-01T10:00:00Z"))}

\* the body of `for event in repo_events` over the events evs; st.done is
\* TRUE once the function has returned from inside the loop
RECURSIVE AdmitRepoEvents(_, _, _)
AdmitRepoEvents(st, evs, target) ==
    IF evs = <<>> \/ st.done THEN st
    ELSE LET ev == Head(evs)
             event_hash == generate_event_hash(ev)
         IN  IF validate_event(ev) # Returned("True")
               THEN AdmitRepoEvents(st, Tail(evs), target)
             ELSE IF event_hash \in st.seen
               THEN AdmitRepoEvents([st EXCEPT !.consumed = @ \cup {event_hash}],
                                    Tail(evs), target)
             ELSE AdmitRepoEvents(
                    [seen |-> st.seen \cup {event_hash},
                     all |-> Append(st.all, ev),
                     n |-> st.n + 1,
                     done |-> st.n + 1 >= target,
                     consumed |-> st.consumed \cup {event_hash}],
                    Tail(evs), target)

\* the body of `for event in hour_events` in _fetch_from_github_archive
RECURSIVE AdmitArchiveEvents(_, _, _)
AdmitArchiveEvents(st, evs, target_count) ==
    IF evs = <<>> \/ st.done THEN st
    ELSE LET ev == Head(evs)
             event_hash == generate_event_hash(ev)
         IN  IF validate_event(ev) # Returned("True")
               THEN AdmitArchiveEvents(st, Tail(evs), target_count)
             ELSE IF event_hash \in st.seen
               THEN AdmitArchiveEvents([st EXCEPT !.consumed = @ \cup {event_hash}],
                                       Tail(evs), target_count)
             ELSE AdmitArchiveEvents(
                    [seen |-> st.seen \cup {event_hash},
                     all |-> Append(st.all, ev),
                     n |-> st.n,
                     done |-> Len(st.all) + 1 >= target_count,
                     consumed |-> st.consumed \cup {event_hash}],
                    Tail(evs), target_count)

CollectInit ==
    /\ target_records \in 1..MaxTarget
    /\ collected_events = 0
    /\ all_events = <<>>
    /\ seen_hashes = {}
    /\ cpc = "idle"
    /\ repo_idx = 0
    /\ archive_events = <<>>
    /\ archive_seen = {}
    /\ days_back = 0
    /\ archive_target = 0
    /\ consumed = {}
    /\ via = "none"
    /\ real_events = <<>>
    /\ fresh = TRUE

\* collect_github_events: all_events = []; seen_hashes = set()
collect_github_events ==
    /\ cpc = "idle"
    /\ collected_events <= MaxTarget
    /\ cpc' = "repos"
    /\ all_events' = <<>>
    /\ seen_hashes' = {}
    /\ repo_idx' = 0
    /\ consumed' = {}
    /\ UNCHANGED <<target_records, collected_events, archive_events, archive_seen,
                   days_back, archive_target, real_events, fresh>>

\* a caller enters collect_github_events
CollectCall ==
    /\ collect_github_events
    /\ via' = "collect_github_events"
    /\ UNCHANGED <<loaderVars, recordVars, otherVars, processVars, runVars>>

\* one iteration of `for repo in self.target_repos`
FetchRepo ==
    /\ cpc = "repos"
    /\ repo_idx < NumRepos
    /\ \E repo_events \in SeqsUpTo(FeedEvents, MaxFeed) :
         LET st == AdmitRepoEvents([seen |-> seen_hashes, all |-> all_events,
                                    n |-> collected_events, done |-> FALSE,
                                    consumed |-> consumed],
                                   repo_events, target_records)
         IN  /\ seen_hashes' = st.seen
             /\ all_events' = st.all
             /\ collected_events' = st.n
             /\ consumed' = st.consumed
             /\ IF st.done
                  THEN cpc' = "done" /\ UNCHANGED repo_idx
                  ELSE repo_idx' = repo_idx + 1 /\ UNCHANGED cpc
    /\ UNCHANGED <<target_records, archive_events, archive_seen, days_back,
                   archive_target>>
    /\ UNCHANGED <<via, real_events, fresh>>
    /\ UNCHANGED <<loaderVars, recordVars, otherVars, processVars, runVars>>

\* after the repositories: if self.collected_events < self.target_records the
\* archive is fetched, else all_events is returned
AfterRepos ==
    /\ cpc = "repos"
    /\ repo_idx = NumRepos
    /\ IF collected_events < target_records
         THEN /\ cpc' = "archive"
              /\ archive_target' = target_records - collected_events
              /\ archive_events' = <<>>
              /\ archive_seen' = {}
              /\ days_back' = 0
         ELSE /\ cpc' = "done"
              /\ UNCHANGED <<archive_target, archive_events, archive_seen, days_back>>
    /\ UNCHANGED <<target_records, collected_events, all_events, seen_hashes,
                   repo_idx, consumed>>
    /\ UNCHANGED <<via, real_events, fresh>>
    /\ UNCHANGED <<loaderVars, recordVars, otherVars, processVars, runVars>>

\* one iteration of `for days_back in range(3)`: the hour 13 file of that day;
\* when the target count is reached the archive events are returned and
\* collect_github_events extends all_events with them and returns
ArchiveDay ==
    /\ cpc = "archive"
    /\ days_back < ArchiveDays
    /\ \E hour_events \in SeqsUpTo(FeedEvents, MaxFeed) :
         LET st == AdmitArchiveEvents([seen |-> archive_seen, all |-> archive_events,
                                       n |-> 0, done |-> FALSE,
                                       consumed |-> consumed],
                                      hour_events, archive_target)
         IN  /\ archive_seen' = st.seen
             /\ archive_events' = st.all
             /\ consumed' = st.consumed
             /\ IF st.done
                  THEN /\ all_events' = all_events \o st.all
                       /\ collected_events' = collected_events + Len(st.all)
                       /\ cpc' = "done"
                       /\ UNCHANGED days_back
                  ELSE /\ days_back' = days_back + 1
                       /\ UNCHANGED <<all_events, collected_events, cpc>>
    /\ UNCHANGED <<target_records, seen_hashes, repo_idx, archive_target>>
    /\ UNCHANGED <<via, real_events, fresh>>
    /\ UNCHANGED <<loaderVars, recordVars, otherVars, processVars, runVars>>

\* the archive loop is over: return events; all_events.extend(archive_events)
ArchiveEnd ==
    /\ cpc = "archive"
    /\ days_back = ArchiveDays
    /\ all_events' = all_events \o archive_events
    /\ collected_events' = collected_events + Len(archive_events)
    /\ cpc' = "done"
    /\ UNCHANGED <<target_records, seen_hashes, repo_idx, archive_events,
                   archive_seen, days_back, archive_target, consumed>>
    /\ UNCHANGED <<via, real_events, fresh>>
    /\ UNCHANGED <<loaderVars, recordVars, otherVars, processVars, runVars>>

\* the caller has the list; the collector can be called again
CollectReturn ==
    /\ cpc = "done"
    /\ via = "collect_github_events"
    /\ cpc' = "idle"
    /\ via' = "none"
    /\ fresh' = FALSE
    /\ UNCHANGED <<target_records, collected_events, all_events, seen_hashes,
                   repo_idx, archive_events, archive_seen, days_back,
                   archive_target, consumed, real_events>>
    /\ UNCHANGED <<loaderVars, recordVars, otherVars, processVars, runVars>>

\* _generate_sample_event(index): random.choice of the repository and of the
\* event type; the actor and the time are random too and stand fixed here
SampleRepos == {"pandas-dev/pandas", "numpy/numpy"}
SampleTypes == {"PushEvent", "WatchEvent"}
SampleChoices == [repo : SampleRepos, type : SampleTypes]
_generate_sample_event(index, ch) ==
    Dict(<<Item("id", Str("fallback_0000000" \o ToString(index))),
           Item("type", Str(ch.type)),
           Item("repo", Dict(<<Item("id", Str("100000")), Item("name", Str(ch.repo)),
                               Item("url", Str("https://github.com/" \o ch.repo))>>)),
           Item("actor", Dict(<<Item("id", Str("10000")), Item("login", Str("user_1")),
                                Item("url", Str("https://github.com/user_1"))>>)),
           Item("created_at", Str("2024-01-01T10:00:00Z")),
           Item("public", Bool(TRUE)),
           Item("payload", Dict(<<>>))>>)

IsValidEvent(ev) == validate_event(ev) = Returned("True")

\* a generator that makes one event less: a mutant of _generate_fallback_samples
_generate_fallback_samples_short(count, chs) ==
    SelectSeq([k \in 1..(count - 1) |-> _generate_sample_event(k - 1, chs[k])],
              IsValidEvent)

\* _generate_fallback_samples(count), chs[k] being the random choices of the
\* event of index k - 1
_generate_fallback_samples(count, chs) ==
    SelectSeq([k \in 1..count |-> _generate_sample_event(k - 1, chs[k])],
              IsValidEvent)

\* collect_sample_data: real_events = self.collect_github_events()
SampleCall ==
    /\ collect_github_events
    /\ via' = "collect_sample_data"
    /\ UNCHANGED <<loaderVars, recordVars, otherVars, processVars, runVars>>

\* collect_github_events has returned into collect_sample_data: the shortfall
\* is filled with generated events
SampleFill ==
    /\ cpc = "done"
    /\ via = "collect_sample_data"
    /\ cpc' = "returned"
    /\ IF Len(all_events) < target_records
         THEN LET needed == target_records - Len(all_events) IN
              \E chs \in [1..needed -> SampleChoices] :
                 real_events' = all_events \o _generate_fallback_samples(needed, chs)
         ELSE real_events' = all_events
    /\ UNCHANGED <<target_records, collected_events, all_events, seen_hashes,
                   repo_idx, archive_events, archive_seen, days_back,
                   archive_target, consumed, via, fresh>>
    /\ UNCHANGED <<loaderVars, recordVars, otherVars, processVars, runVars>>

\* the caller of collect_sample_data has the list
SampleReturn ==
    /\ cpc = "returned"
    /\ cpc' = "idle"
    /\ via' = "none"
    /\ fresh' = FALSE
    /\ real_events' = <<>>
    /\ UNCHANGED <<target_records, collected_events, all_events, seen_hashes,
                   repo_idx, archive_events, archive_seen, days_back,
                   archive_target, consumed>>
    /\ UNCHANGED <<loaderVars, recordVars, otherVars, processVars, runVars>>

(***************************************************************************)
(* SpecWriters: two runs, each with its own DataProcessor, load into the   *)
(* same database file at the same time.  Each INSERT OR REPLACE statement  *)
(* is one transaction of its connection; load_to_duckdb takes no lock and  *)
(* opens no transaction around its loop, so the statements of the two      *)
(* calls come in any order.                                                *)
(***************************************************************************)
\* both runs are past connect() and setup_database(): the table, the indexes
\* and the view exist, the second setup_database has replaced the view
WritersInit ==
    LET empty == [table |-> FALSE, rows |-> {}, indexes |-> <<>>, view |-> "absent"]
        once == ExecuteAll(empty, SetupStatements).cat
        twice == ExecuteAll(once, SetupStatements).cat
    IN  /\ conn = "open"
        /\ other_conn = "open"
        /\ schema = twice.table
        /\ store = twice.rows
        /\ indexes = twice.indexes
        /\ view = twice.view
        /\ last_call = Call("setup_database", "True")
        /\ lpc = "idle"
        /\ df = <<>>
        /\ batch_size = 1
        /\ i = 0
        /\ chunks = <<>>
        /\ failed = FALSE
        /\ registered = FALSE
        /\ ret = "none"
        /\ store0 = {}
        /\ log = <<>>
        /\ other_lpc = "idle"
        /\ other_df = <<>>
        /\ other_batch_size = 1
        /\ other_i = 0
        /\ other_chunks = <<>>
        /\ other_ret = "none"

\* the rows a run loads: the events of the two runs may share their ids, and
\* the values each run has for an id are its own
RowsOfRun(type) == {r \in Rows : r.event_type = type}

\* load_to_duckdb(rows, B) of the first processor
WriterLoadCall ==
    /\ \E rows \in SeqsUpTo(RowsOfRun("PushEvent"), MaxStoreRows), B \in 1..MaxBatch :
         load_to_duckdb(rows, B)
    /\ UNCHANGED runVars

\* load_to_duckdb(rows, B) of the second processor: entry and the two guards
OtherLoadCall ==
    /\ other_lpc = "idle"
    /\ \E rows \in SeqsUpTo(RowsOfRun("WatchEvent"), MaxStoreRows), B \in 1..MaxBatch :
         /\ other_df' = rows
         /\ other_batch_size' = B
         /\ IF other_conn = "none" \/ IsEmpty(rows)
              THEN other_lpc' = "done" /\ other_ret' = "False"
              ELSE other_lpc' = "loop" /\ other_ret' = "none"
    /\ other_i' = 0
    /\ other_chunks' = <<>>
    /\ UNCHANGED other_conn
    /\ UNCHANGED <<loaderVars, recordVars, processVars, collectVars, runVars>>

\* one iteration of its loop whose statements all succeed
OtherLoadChunk ==
    /\ other_lpc = "loop"
    /\ other_i < Len(other_df)
    /\ other_conn = "open"
    /\ schema
    /\ LET batch == Batch(other_df, other_i, other_batch_size) IN
        /\ other_chunks' = Append(other_chunks, batch)
        /\ store' = UpsertBatch(store, batch)
    /\ other_i' = other_i + other_batch_size
    /\ UNCHANGED <<other_conn, other_lpc, other_df, other_batch_size, other_ret>>
    /\ UNCHANGED <<conn, schema, lpc, df, batch_size, i, chunks, failed, registered,
                   ret, store0, log, indexes, view, last_call>>
    /\ UNCHANGED <<recordVars, processVars, collectVars, runVars>>

\* one iteration in which its INSERT OR REPLACE statement raises
OtherLoadChunkFail ==
    /\ other_lpc = "loop"
    /\ other_i < Len(other_df)
    /\ other_conn = "open"
    /\ LET batch == Batch(other_df, other_i, other_batch_size) IN
        /\ other_chunks' = Append(other_chunks, batch)
        /\ store' = FailedUpsert(store, batch)
    /\ other_lpc' = "done"
    /\ other_ret' = ReturnOnError
    /\ UNCHANGED <<other_conn, other_df, other_batch_size, other_i>>
    /\ UNCHANGED <<conn, schema, lpc, df, batch_size, i, chunks, failed, registered,
                   ret, store0, log, indexes, view, last_call>>
    /\ UNCHANGED <<recordVars, processVars, collectVars, runVars>>

\* its loop is over: return True
OtherLoadFinish ==
    /\ other_lpc = "loop"
    /\ other_i >= Len(other_df)
    /\ other_lpc' = "done"
    /\ other_ret' = "True"
    /\ UNCHANGED <<other_conn, other_df, other_batch_size, other_i, other_chunks>>
    /\ UNCHANGED <<loaderVars, recordVars, processVars, collectVars, runVars>>

(***************************************************************************)
(* The specifications.  Each one moves its own variables and holds the     *)
(* others at their idle values.                                            *)
(***************************************************************************)
OtherIdle ==
    /\ other_conn = "none"
    /\ other_lpc = "idle"
    /\ other_df = <<>>
    /\ other_batch_size = 1
    /\ other_i = 0
    /\ other_chunks = <<>>
    /\ other_ret = "none"
RecordIdle == event = None /\ reordered = None /\ out = [op |-> "none"]
ProcessIdle ==
    /\ events = <<>>
    /\ idx = 0
    /\ processed_events = <<>>
    /\ skipped_events = 0
    /\ ppc = "done"
CollectIdle ==
    /\ target_records = 1
    /\ collected_events = 0
    /\ all_events = <<>>
    /\ seen_hashes = {}
    /\ cpc = "idle"
    /\ repo_idx = 0
    /\ archive_events = <<>>
    /\ archive_seen = {}
    /\ days_back = 0
    /\ archive_target = 0
    /\ consumed = {}
    /\ via = "none"
    /\ real_events = <<>>
    /\ fresh = TRUE

(***************************************************************************)
(* SpecRun: one run of the processing stage on a fresh DataProcessor, by   *)
(* each of its three callers:                                              *)
(*   "main"            main.py: main, run_ingestion, run_processing        *)
(*   "pipeline"        orchestration/pipeline.py: main_flow, run_processing*)
(*   "data_processor"  processing/data_processor.py: main                  *)
(* The method calls are the actions of Spec and SpecProcess; the run adds  *)
(* the order of the calls and what the caller does with each result.       *)
(***************************************************************************)
Callers == {"main", "pipeline", "data_processor"}

\* the order of the stages in the text of each caller
StepsOf(c) ==
    IF c = "data_processor"
      THEN <<"connect", "setup", "ingest", "process", "load", "quality", "close">>
      ELSE <<"ingest", "connect", "setup", "process", "load", "quality", "close">>

\* the stage after stage step
NextStep(c, step) ==
    LET k == CHOOSE j \in 1..Len(StepsOf(c)) : StepsOf(c)[j] = step
    IN  StepsOf(c)[k + 1]

\* batch_size=50000 in main.py and pipeline.py; the default of load_to_duckdb
\* in data_processor.main
BatchSizeOfCallers == 50000
DefaultBatchSize == 10000
BatchSizeOf(c) == IF c = "data_processor" THEN DefaultBatchSize ELSE BatchSizeOfCallers

\* the value a caller's early return hands back: None in main.py, False in
\* data_processor.main
AbortValue(c) == IF c = "main" THEN None ELSE Bool(FALSE)
Unset == [t |-> "unset"]
Exception == [t |-> "raised"]

\* a test that lets every value but None through: a mutant of Falsy
IsNone(v) == v.t = "none"

\* `not v` for the values a run or a step of main() returns
Falsy(v) ==
    \/ v.t = "none"
    \/ v.t = "bool" /\ ~v.b
    \/ v.t = "report" /\ v.keys = {}
    \/ v.t = "dict" /\ v.d = <<>>
    \/ v.t = "list" /\ v.n = 0

\* the records a source delivers to a run
ScenarioEvent1 ==
    MakeEvent(Str("1"), Str("PushEvent"), Dict(<<Item("name", Str("a/b"))>>),
              Dict(<<Item("login", Str("u"))>>), Str("2024-01-01T10:00:00Z"))
ScenarioEvent2 ==
    MakeEvent(Str("2"), Str("WatchEvent"), Dict(<<Item("name", Str("a/b"))>>),
              Dict(<<Item("login", Str("u2"))>>), Str("not-a-date"))
RunEvents ==
    {ScenarioEvent1, ScenarioEvent2,
     MakeEvent(Str("2"), Str("WatchEvent"), Dict(<<Item("name", Str("a/b"))>>),
               Dict(<<Item("login", Str("u2"))>>), Str("2024-03-02T23:30:00Z")),
     MakeEvent(Str("2"), Str("PushEvent"), Dict(<<Item("name", Str("a/b"))>>),
               Dict(<<Item("login", Str("u"))>>), Str("2024-01-01T10:00:00Z")),
     None}

\* the events of evs before the first one on which validate_event raises: the
\* exception leaves the loop over the events of the source
RECURSIVE UpToRaise(_)
UpToRaise(evs) ==
    IF evs = <<>> THEN <<>>
    ELSE IF validate_event(Head(evs)).raised THEN <<>>
    ELSE <<Head(evs)>> \o UpToRaise(Tail(evs))

\* collect_github_events over one source, for a target the source does not
\* reach: the valid events, each fingerprint once
Collected(evs) ==
    AdmitRepoEvents([seen |-> {}, all |-> <<>>, n |-> 0, done |-> FALSE,
                     consumed |-> {}],
                    UpToRaise(evs), Len(evs) + 1).all

\* a step of main() and the value it returned; a list stands by its length
Stage(step, res) == [step |-> step, res |-> res]
ListOf(l) == [t |-> "list", n |-> Len(l)]

RunInit ==
    /\ caller \in Callers
    /\ rpc = StepsOf(caller)[1]
    /\ feed \in SeqsUpTo(RunEvents, MaxEvents)
    /\ trace = <<>>
    /\ run_ret = Unset
    /\ outcome = "none"
    /\ stages = <<>>
    /\ main_ret = "none"

\* what follows a call of stage step: an early return when the caller tests
\* the result and it is a failure, the next stage otherwise.  pipeline.py
\* tests no result.
Proceed(step, failure) ==
    IF failure /\ caller # "pipeline"
      THEN /\ rpc' = "returned"
           /\ run_ret' = AbortValue(caller)
      ELSE /\ rpc' = NextStep(caller, step)
           /\ UNCHANGED run_ret

\* the ingestion that hands the run its events: fetch_fast_sample gives what
\* it downloaded as it is; the DataCollector (the fallback of main.py when the
\* fast sample is empty, the source of data_processor.main) validates and
\* deduplicates
RunIngest ==
    /\ rpc = "ingest"
    /\ \/ /\ caller \in {"main", "pipeline"}
          /\ events' = feed
       \/ /\ caller \in {"main", "data_processor"}
          /\ events' = Collected(feed)
    /\ IF events' = <<>> /\ caller = "main"
         THEN \* run_ingestion returns None: main() fails before run_processing
              /\ rpc' = "ended"
              /\ outcome' = "failed"
              /\ UNCHANGED run_ret
         ELSE /\ Proceed("ingest", events' = <<>>)
              /\ UNCHANGED outcome
    /\ stages' = IF caller = "main"
                   THEN <<Stage("run_ingestion",
                                IF events' = <<>> THEN None ELSE ListOf(events'))>>
                   ELSE stages
    /\ UNCHANGED <<caller, feed, trace, main_ret>>
    /\ UNCHANGED <<idx, processed_events, skipped_events, ppc>>
    /\ UNCHANGED <<loaderVars, recordVars, otherVars, collectVars>>

RunConnect ==
    /\ rpc = "connect"
    /\ connect
    /\ trace' = Append(trace, last_call')
    /\ Proceed("connect", last_call'.res = "False")
    /\ UNCHANGED <<caller, feed, outcome, stages, main_ret>>

RunSetup ==
    /\ rpc = "setup"
    /\ setup_database \/ setup_database_error
    /\ trace' = Append(trace, last_call')
    /\ Proceed("setup", last_call'.res = "False")
    /\ UNCHANGED <<caller, feed, outcome, stages, main_ret>>

\* processor.process_events(events) is entered
RunProcess ==
    /\ rpc = "process"
    /\ rpc' = "processing"
    /\ idx' = 0
    /\ processed_events' = <<>>
    /\ skipped_events' = 0
    /\ ppc' = "loop"
    /\ UNCHANGED events
    /\ UNCHANGED <<caller, feed, trace, run_ret, outcome, stages, main_ret>>
    /\ UNCHANGED <<loaderVars, recordVars, otherVars, collectVars>>

\* process_events has returned its DataFrame, or an exception has left it:
\* main.py and data_processor.main catch it and return, pipeline.py lets it
\* through
RunProcessed ==
    /\ rpc = "processing"
    /\ ppc \in {"done", "raised"}
    /\ IF ppc = "raised"
         THEN /\ trace' = Append(trace, Call("process_events", "raised"))
              /\ rpc' = "returned"
              /\ run_ret' = IF caller = "pipeline" THEN Exception
                                                   ELSE AbortValue(caller)
         ELSE /\ trace' = Append(trace, Call("process_events", "DataFrame"))
              /\ Proceed("process", processed_events = <<>>)
    /\ UNCHANGED <<caller, feed, outcome, stages, main_ret>>
    /\ UNCHANGED <<loaderVars, recordVars, otherVars, processVars, collectVars>>

\* processor.load_to_duckdb(df_processed, batch_size) is entered
RunLoad ==
    /\ rpc = "load"
    /\ load_to_duckdb(processed_events, BatchSizeOf(caller))
    /\ UNCHANGED runVars

\* load_to_duckdb has returned
RunLoaded ==
    /\ rpc = "load"
    /\ load_return
    /\ trace' = Append(trace, last_call')
    /\ Proceed("load", last_call'.res = "False")
    /\ UNCHANGED <<caller, feed, outcome, stages, main_ret>>

RunQualityChecks ==
    /\ rpc = "quality"
    /\ run_quality_checks
    /\ trace' = Append(trace, last_call')
    /\ rpc' = NextStep(caller, "quality")
    /\ UNCHANGED <<caller, feed, run_ret, outcome, stages, main_ret>>

\* processor.close(); return quality_checks
RunClose ==
    /\ rpc = "close"
    /\ close
    /\ trace' = Append(trace, last_call')
    /\ rpc' = "returned"
    /\ run_ret' = Last(trace).res
    /\ UNCHANGED <<caller, feed, outcome, stages, main_ret>>

\* what the caller does with the value of the run: main() fails the pipeline
\* on a falsy value; main_flow goes on to the analysis unless the task raised;
\* the script of data_processor.py drops the value
CallerReacts ==
    /\ rpc = "returned"
    /\ rpc' = "ended"
    /\ outcome' = IF caller = "main"
                    THEN (IF Falsy(run_ret) THEN "failed" ELSE "continues")
                  ELSE IF caller = "pipeline"
                    THEN (IF run_ret = Exception THEN "failed" ELSE "continues")
                  ELSE "continues"
    /\ stages' = IF caller = "main"
                   THEN Append(stages, Stage("run_processing", run_ret))
                   ELSE stages
    /\ UNCHANGED <<caller, feed, trace, run_ret, main_ret>>
    /\ UNCHANGED <<loaderVars, recordVars, otherVars, processVars, collectVars>>

\* the processor of a run that has returned is garbage: the interpreter may
\* finalize it at any time, or never, and finalizing closes its connection
Finalize ==
    /\ rpc \in {"returned", "ended"}
    /\ conn = "open"
    /\ conn' = "closed"
    /\ registered' = FALSE
    /\ UNCHANGED <<schema, store, lpc, df, batch_size, i, chunks, failed, ret,
                   store0, log, indexes, view, last_call>>
    /\ UNCHANGED <<recordVars, otherVars, processVars, collectVars, runVars>>

\* run_analysis(): None when the analyzer cannot connect or an exception is
\* caught, else the dict of the seven analyses; KeyboardInterrupt is not an
\* Exception and leaves the step
AnalysisKeys ==
    <<"basic_statistics", "event_types", "top_repositories", "top_contributors",
      "temporal_patterns", "repository_health", "insights">>
AnalysisResults ==
    {None, Dict([k \in 1..Len(AnalysisKeys) |-> Item(AnalysisKeys[k], Dict(<<>>))])}

\* run_visualization(analysis_results): None on a caught exception, else what
\* generate_all_plots returned: {} when it failed, the plot files otherwise
PlotFiles ==
    {None, Dict(<<>>),
     Dict(<<Item("dashboard", Str("visualizations/summary_dashboard.png"))>>),
     Dict(<<Item("dashboard", None)>>)}

\* main() is past step k and goes on: the step returned and `not result` is
\* false
StepPassed(k) ==
    /\ Len(stages) = k
    /\ stages[k].res # Exception
    /\ ~Falsy(stages[k].res)

\* Step 3 of main(): analysis_results = run_analysis()
RunAnalysis ==
    /\ caller = "main"
    /\ rpc = "ended"
    /\ main_ret = "none"
    /\ StepPassed(2)
    /\ \E res \in AnalysisResults \cup {Exception} :
          stages' = Append(stages, Stage("run_analysis", res))
    /\ UNCHANGED <<caller, rpc, feed, trace, run_ret, outcome, main_ret>>
    /\ UNCHANGED <<loaderVars, recordVars, otherVars, processVars, collectVars>>

\* Step 4 of main(): plot_files = run_visualization(analysis_results)
RunVisualization ==
    /\ caller = "main"
    /\ rpc = "ended"
    /\ main_ret = "none"
    /\ StepPassed(3)
    /\ \E res \in PlotFiles \cup {Exception} :
          stages' = Append(stages, Stage("run_visualization", res))
    /\ UNCHANGED <<caller, rpc, feed, trace, run_ret, outcome, main_ret>>
    /\ UNCHANGED <<loaderVars, recordVars, otherVars, processVars, collectVars>>

\* main() returns: False after the step that gave a falsy result or was
\* interrupted, True after the summary that follows the fourth step
MainReturn ==
    /\ caller = "main"
    /\ rpc = "ended"
    /\ main_ret = "none"
    /\ stages # <<>>
    /\ IF StepPassed(Len(stages))
         THEN Len(stages) = 4 /\ main_ret' = "True"
         ELSE main_ret' = "False"
    /\ UNCHANGED <<caller, rpc, feed, trace, run_ret, outcome, stages>>
    /\ UNCHANGED <<loaderVars, recordVars, otherVars, processVars, collectVars>>

RunIdle ==
    /\ caller = "none"
    /\ rpc = "idle"
    /\ feed = <<>>
    /\ trace = <<>>
    /\ run_ret = [t |-> "unset"]
    /\ outcome = "none"
    /\ stages = <<>>
    /\ main_ret = "none"

Init ==
    LoaderInit /\ OtherIdle /\ RecordIdle /\ ProcessIdle /\ CollectIdle /\ RunIdle
Next ==
    \/ CallConnect
    \/ CallSetup
    \/ CallClose
    \/ LoadCall
    \/ LoadChunk
    \/ LoadRegisterFail
    \/ LoadChunkFail
    \/ LoadFinish
    \/ LoadReturn
Spec == Init /\ [][Next]_vars

\* SpecStore: every method of the DataProcessor in any order, storage failures
\* under setup_database included
InitStore == Init
NextStore ==
    \/ CallConnect
    \/ CallSetup
    \/ CallSetupError
    \/ CallQualityChecks
    \/ CallClose
    \/ StoreLoadCall
    \/ LoadChunk
    \/ LoadRegisterFail
    \/ LoadChunkFail
    \/ LoadFinish
    \/ LoadReturn
SpecStore == InitStore /\ [][NextStore]_vars

InitRecord ==
    LoaderInit /\ OtherIdle /\ RecordInit /\ ProcessIdle /\ CollectIdle /\ RunIdle
NextRecord ==
    \/ Reorder
    \/ Validate
    \/ TransformEvent
    \/ Hash
SpecRecord == InitRecord /\ [][NextRecord]_vars

InitProcess ==
    LoaderInit /\ OtherIdle /\ RecordIdle /\ ProcessInit /\ CollectIdle /\ RunIdle
NextProcess ==
    \/ ProcessStep
    \/ ProcessReturn
SpecProcess == InitProcess /\ [][NextProcess]_vars

InitCollect ==
    LoaderInit /\ OtherIdle /\ RecordIdle /\ ProcessIdle /\ CollectInit /\ RunIdle
NextCollect ==
    \/ CollectCall
    \/ FetchRepo
    \/ AfterRepos
    \/ ArchiveDay
    \/ ArchiveEnd
    \/ CollectReturn
    \/ SampleCall
    \/ SampleFill
    \/ SampleReturn
SpecCollect == InitCollect /\ [][NextCollect]_vars

\* SpecWriters: each of the two runs makes its one load_to_duckdb call
InitWriters == WritersInit /\ RecordIdle /\ ProcessIdle /\ CollectIdle /\ RunIdle
NextWriters ==
    \/ WriterLoadCall
    \/ LoadChunk
    \/ LoadChunkFail
    \/ LoadFinish
    \/ OtherLoadCall
    \/ OtherLoadChunk
    \/ OtherLoadChunkFail
    \/ OtherLoadFinish
SpecWriters == InitWriters /\ [][NextWriters]_vars

InitRun ==
    LoaderInit /\ OtherIdle /\ RecordIdle /\ ProcessIdle /\ CollectIdle /\ RunInit
NextRun ==
    \/ RunIngest
    \/ RunConnect
    \/ RunSetup
    \/ RunProcess
    \/ ProcessStep
    \/ ProcessReturn
    \/ RunProcessed
    \/ RunLoad
    \/ LoadChunk
    \/ LoadChunkFail
    \/ LoadFinish
    \/ RunLoaded
    \/ RunQualityChecks
    \/ RunClose
    \/ CallerReacts
    \/ RunAnalysis
    \/ RunVisualization
    \/ MainReturn
    \/ Finalize
SpecRun == InitRun /\ [][NextRun]_vars

(***************************************************************************)
(* Properties of load_to_duckdb, checked under Spec.                       *)
(***************************************************************************)
CeilDiv(a, b) == (a + b - 1) \div b

IdsOf(rows) == {rows[k].event_id : k \in 1..Len(rows)}

\* the last row of rows that carries event_id id
LastRowOf(rows, id) ==
    rows[CHOOSE k \in 1..Len(rows) :
            /\ rows[k].event_id = id
            /\ \A m \in (k + 1)..Len(rows) : rows[m].event_id # id]

\* no batch of the call carries id twice
OnePerChunk(id) ==
    \A c \in 1..Len(chunks) :
        \A a, b \in 1..Len(chunks[c]) :
            (chunks[c][a].event_id = id /\ chunks[c][b].event_id = id) => a = b

\* C1: every event_id has at most one stored row in every reachable state; and
\* once a load has returned True, an event_id loaded by it (in this call after an
\* earlier call, or in two different chunks of this call) has exactly one stored
\* row, carrying the values of the last row loaded for it.
C1_UpsertKeepsLastRowPerEventId ==
    /\ \A x, y \in store : x.event_id = y.event_id => x = y
    /\ (lpc = "done" /\ ret = "True") =>
          \A id \in IdsOf(df) :
              OnePerChunk(id) =>
                  {x \in store : x.event_id = id} = {LastRowOf(df, id)}

\* a load returned True; the store held a row for an event_id before the call,
\* and the call loaded that event_id twice, in two different chunks, the last
\* time with other values than the stored ones
C1_Witness ==
    /\ lpc = "done"
    /\ ret = "True"
    /\ \E old \in store0 :
          /\ OnePerChunk(old.event_id)
          /\ Cardinality({k \in 1..Len(df) : df[k].event_id = old.event_id}) = 2
          /\ LastRowOf(df, old.event_id) # old
          /\ {x \in store : x.event_id = old.event_id} = {LastRowOf(df, old.event_id)}

\* C2: a load of L >= 1 rows with batch_size B >= 1 that ran to the end applied
\* exactly ceil(L/B) chunks, each of 1..B rows, whose concatenation in the order
\* applied is df; while the loop runs the chunks applied are the first i rows.
C2_ChunksPartitionRows ==
    /\ (lpc = "done" /\ ret = "True") =>
          /\ Len(chunks) = CeilDiv(Len(df), batch_size)
          /\ \A c \in 1..Len(chunks) :
                Len(chunks[c]) >= 1 /\ Len(chunks[c]) <= batch_size
          /\ Flatten(chunks) = df
    /\ lpc = "loop" => Flatten(chunks) = SubSeq(df, 1, Min(i, Len(df)))

\* three rows loaded in batches of two: a full chunk and a short last chunk
C2_Witness ==
    /\ lpc = "done"
    /\ ret = "True"
    /\ Len(df) = 3
    /\ batch_size = 2
    /\ Len(chunks) = 2

\* C3: when the upsert of chunk k fails, the call returns False; the store is
\* the store at the call's start with the rows of chunks 0..k-1 (the first
\* k * batch_size rows of df) upserted in order; chunk k is the last chunk on
\* which a statement ran.
C3_FailedChunkLeavesEarlierChunks ==
    (lpc = "done" /\ failed) =>
        /\ ret = "False"
        /\ i % batch_size = 0
        /\ store = UpsertBatch(store0, SubSeq(df, 1, i))
        /\ Len(chunks) = (i \div batch_size) + 1
        /\ Last(chunks) = SubSeq(df, i + 1, Min(i + batch_size, Len(df)))

\* the second of three chunks failed: the first chunk changed the store, a row
\* of the failing chunk is not stored and a chunk was left unattempted
C3_Witness ==
    /\ lpc = "done"
    /\ failed
    /\ i > 0
    /\ i + batch_size < Len(df)
    /\ store # store0
    /\ \E k \in 1..Len(Last(chunks)) : Last(chunks)[k] \notin store

\* the counts carried by the messages of the call's log
LoggedCounts == {log[k].n : k \in {j \in 1..Len(log) : "n" \in DOMAIN log[j]}}

C5_EmptyRowsReturnFalseAtOnce ==
    [][(lpc = "idle" /\ lpc' # "idle" /\ df' = <<>>) =>
          /\ lpc' = "done"
          /\ ret' = "False"
          /\ store' = store
          /\ registered' = registered
          /\ chunks' = <<>>]_vars

\* an empty df was passed on an open connection to a store that holds rows
C5_Witness ==
    /\ lpc = "done"
    /\ df = <<>>
    /\ conn = "open"
    /\ schema
    /\ store # {}
    /\ store = store0
    /\ ret = "False"

(***************************************************************************)
(* Properties of the collector, checked under SpecCollect.                 *)
(***************************************************************************)
\* C6: when a collection pass has returned, the events it admitted are as many
\* as the distinct fingerprints among the valid events it examined: no
\* fingerprint was admitted twice.
C6_AdmitsOncePerFingerprint ==
    cpc = "done" =>
        /\ Len(all_events) = Cardinality(consumed)
        /\ \A a, b \in 1..Len(all_events) :
              generate_event_hash(all_events[a]) = generate_event_hash(all_events[b])
                  => a = b

(***************************************************************************)
(* Properties of the record-level functions, checked under SpecRecord.     *)
(***************************************************************************)
\* C7: the hash of an event equals the hash of the same event with the items of
\* its dicts, at any nesting level, in another order.
C7_HashIgnoresFieldOrder ==
    out.op = "hash" => out.h = out.hr

\* the event and its copy differ in the order of the top-level fields and in
\* the order of the fields of repo, and were hashed
C7_Witness ==
    /\ out.op = "hash"
    /\ IsDict(event)
    /\ Len(event.d) >= 3
    /\ event.d[1].k # reordered.d[1].k
    /\ HasKey(event, "repo")
    /\ IsDict(Get(event, "repo", None))
    /\ Get(event, "repo", None) # Get(reordered, "repo", None)
    /\ out.h = out.hr

\* the record carries id, type, actor, created_at and a repo object that
\* contains name
CarriesRequired(ev) ==
    /\ \A f \in {"id", "type", "actor", "created_at", "repo"} : HasKey(ev, f)
    /\ IsDict(Get(ev, "repo", None))
    /\ HasKey(Get(ev, "repo", None), "name")

\* C8: on a record (a dict) validate_event raises nothing and returns True
\* exactly when the record carries id, type, actor, created_at and a repo
\* object that contains name; it returns False otherwise.
C8_ValidateExactlyRequiredShape ==
    (out.op = "validate" /\ IsDict(event)) =>
        /\ ~out.res.raised
        /\ out.res.ret = (IF CarriesRequired(event) THEN "True" ELSE "False")

\* a record that lacks only actor was validated
C8_Witness ==
    /\ out.op = "validate"
    /\ IsDict(event)
    /\ ~HasKey(event, "actor")
    /\ \A f \in {"id", "type", "created_at", "repo"} : HasKey(event, f)
    /\ IsDict(Get(event, "repo", None))
    /\ HasKey(Get(event, "repo", None), "name")
    /\ out.res = Returned("False")

\* the created_at values of the model that are no timestamp: a text that is
\* no date, None, and the missing field
UnparseableCreatedAt == {Str("not-a-date"), None, Absent}

\* C9: _transform_event on a record whose created_at cannot be parsed raises
\* nothing and returns None.
C9_UnparseableCreatedAtGivesNone ==
    (/\ out.op = "transform"
     /\ IsDict(event)
     /\ Get(event, "created_at", Absent) \in UnparseableCreatedAt) =>
        /\ ~out.res.raised
        /\ out.res.ret = None

\* a record that passes validation and carries created_at "not-a-date" was
\* transformed
C9_Witness ==
    /\ out.op = "transform"
    /\ IsDict(event)
    /\ validate_event(event) = Returned("True")
    /\ Get(event, "created_at", Absent) = Str("not-a-date")
    /\ out.res = Returned(None)

(***************************************************************************)
(* Properties of process_events, checked under SpecProcess.                *)
(***************************************************************************)
\* C10: when process_events has returned, the skipped count plus the number of
\* rows produced is the number of input records.
C10_SkippedPlusRowsIsInputs ==
    ppc = "done" => skipped_events + Len(processed_events) = Len(events)

(***************************************************************************)
(* C11  (SpecRecord)                                                       *)
(***************************************************************************)
\* the rows _transform_event has returned
IsRow(o) == o.op = "transform" /\ ~o.res.raised /\ o.res.ret # None

\* the weekdays of the dates of the model, read off a calendar
CalendarWeekday(ts) ==
    IF <<ts.year, ts.month, ts.day>> = <<2024, 1, 1>> THEN "Monday"
    ELSE IF <<ts.year, ts.month, ts.day>> = <<2024, 3, 2>> THEN "Saturday"
    ELSE "unknown"

\* C11: every row _transform_event returns has hour_of_day, day_of_week, month
\* and year equal to the hour, the weekday name, the (year, month) pair and the
\* year of that same row's created_at.
C11_CalendarFieldsFollowCreatedAt ==
    IsRow(out) =>
        LET row == out.res.ret
            c == row.created_at
        IN  /\ ~c.nat
            /\ row.hour_of_day = c.hour
            /\ row.day_of_week = CalendarWeekday(c)
            /\ row.month = <<c.year, c.month>>
            /\ row.year = c.year

\* a row for an evening in March: hour 23, a Saturday
C11_Witness ==
    /\ IsRow(out)
    /\ Get(event, "created_at", None) = Str("2024-03-02T23:30:00Z")
    /\ out.res.ret.hour_of_day = 23
    /\ out.res.ret.day_of_week = "Saturday"
    /\ out.res.ret.month = <<2024, 3>>

(***************************************************************************)
(* C12  (SpecRecord)                                                       *)
(***************************************************************************)
\* the hour and the year of the instant in UTC, for the offsets of the model
\* (whole hours east of Greenwich)
UTCHour(ts) == (ts.hour - ts.utcoffset) % 24
UTCYear(ts) ==
    IF ts.hour - ts.utcoffset < 0 /\ ts.month = 1 /\ ts.day = 1
      THEN ts.year - 1 ELSE ts.year

\* C12: the calendar fields of a row are those of the UTC instant of
\* created_at: hour_of_day is the UTC hour and year the UTC year, also when the
\* created_at text carries a non-zero offset.
C12_CalendarFieldsInUTC ==
    IsRow(out) =>
        /\ out.res.ret.hour_of_day = UTCHour(out.res.ret.created_at)
        /\ out.res.ret.year = UTCYear(out.res.ret.created_at)

(***************************************************************************)
(* C13  (SpecRecord)                                                       *)
(***************************************************************************)
\* C13: in every row, repo_owner is the text of repo_name before its first
\* '/': repo_owner holds no '/', and repo_owner followed by '/' starts
\* repo_name; it is empty when repo_name holds no '/' or the record has no
\* repo name.
C13_RepoOwnerIsTextBeforeFirstSlash ==
    IsRow(out) =>
        LET n == Chars(out.res.ret.repo_name)
            o == out.res.ret.repo_owner
        IN  IF \E j \in 1..Len(n) : n[j] = "/"
              THEN /\ \A j \in 1..Len(o) : o[j] # "/"
                   /\ Len(o) < Len(n)
                   /\ SubSeq(n, 1, Len(o) + 1) = o \o <<"/">>
              ELSE o = <<>>

\* a name with two '/': the owner stops at the first
C13_Witness ==
    /\ IsRow(out)
    /\ out.res.ret.repo_name = "o/r/x"
    /\ out.res.ret.repo_owner = <<"o">>

(***************************************************************************)
(* C14  (SpecStore)                                                        *)
(***************************************************************************)
\* what a setup_database call on an open connection and a working storage
\* leaves, whatever the database held before: success, the rows as they
\* were, the table, the indexes that existed still in their places and each
\* of the four there exactly once, and the view
SetupLeaves ==
    /\ last_call' = Call("setup_database", "True")
    /\ store' = store
    /\ schema'
    /\ SubSeq(indexes', 1, Len(indexes)) = indexes
    /\ Len(indexes') = Len(IndexNames)
    /\ \A k \in 1..Len(IndexNames) :
         Cardinality({j \in 1..Len(indexes') : indexes'[j] = IndexNames[k]}) = 1
    /\ view' # "absent"

\* C14 as claimed: setup_database leaves SetupLeaves and is create-if-absent
\* for the table, the indexes and the view: a view that exists is left as it
\* is.
C14_SetupCreatesOnlyWhatIsAbsent ==
    [][(setup_database /\ conn = "open") =>
          (SetupLeaves /\ (view # "absent" => view' = view))]_vars

\* C14 amended: setup_database leaves SetupLeaves; it is create-if-absent for
\* the table and the indexes, and replaces a view that exists by a new one.
C14_SetupIsIdempotentAndReplacesTheView ==
    [][(setup_database /\ conn = "open") =>
          (SetupLeaves /\ view' = IF view = "absent" THEN "created"
                                                     ELSE "replaced")]_vars

\* setup_database has succeeded a second time, on a table that holds rows
C14_Witness ==
    /\ last_call = Call("setup_database", "True")
    /\ view = "replaced"
    /\ store # {}

(***************************************************************************)
(* C15  (SpecRun)                                                          *)
(***************************************************************************)
\* the calls of op in the trace of the run
CallsOf(op) == {k \in 1..Len(trace) : trace[k].op = op}

\* connect or setup_database has returned False in the run
SchemaOrConnectionFailed ==
    \E k \in CallsOf("connect") \cup CallsOf("setup_database") :
        trace[k].res = "False"

\* load_to_duckdb has been invoked in the run
LoadInvoked == lpc # "idle" \/ CallsOf("load_to_duckdb") # {}

\* C15: a run in which connect or setup_database returned False never invokes
\* load_to_duckdb, and the value it returns tells its caller of the failure.
C15_NoLoadAfterFailedConnectOrSetup ==
    SchemaOrConnectionFailed =>
        /\ ~LoadInvoked
        /\ rpc \in {"returned", "ended"} => Falsy(run_ret)

(***************************************************************************)
(* C16  (SpecRun)                                                          *)
(***************************************************************************)
\* C16: whenever the run has returned, on the normal path, on an early
\* return or through an exception, the connection it opened is closed.
C16_ConnectionClosedOnEveryReturn ==
    rpc \in {"returned", "ended"} => conn # "open"

(***************************************************************************)
(* C17  (SpecRun)                                                          *)
(***************************************************************************)
\* the reports run_quality_checks has returned in the run
ReportsOfRun == {trace[k].res : k \in CallsOf("run_quality_checks")}

\* a report that is empty, lacks a field, or counts no row
Unusable(r) ==
    \/ r.keys # ReportKeys
    \/ r.total_events = 0

\* C17: when the quality report of a run is empty, lacks fields or shows zero
\* rows, the caller treats the run as failed, whatever the loads reported.
C17_UnusableReportFailsTheRun ==
    (rpc = "ended" /\ \E r \in ReportsOfRun : Unusable(r)) => outcome = "failed"

(***************************************************************************)
(* C18  (SpecProcess)                                                      *)
(***************************************************************************)
\* C18: no call of process_events, whatever the records, those that are no
\* dictionaries included, is left by an exception: the call returns a value.
C18_ProcessEventsNeverRaises == ppc # "raised"

(***************************************************************************)
(* C19  (SpecRun)                                                          *)
(***************************************************************************)
\* the input of the scenario
ScenarioFeed == <<ScenarioEvent1, ScenarioEvent1, ScenarioEvent2>>

\* the run on ScenarioFeed went through every stage without a failure and its
\* ingestion deduplicates
ScenarioDone ==
    /\ feed = ScenarioFeed
    /\ rpc = "ended"
    /\ events = Collected(feed)
    /\ \E k \in CallsOf("load_to_duckdb") : trace[k].res = "True"
    /\ \E r \in ReportsOfRun : ~Unusable(r)

\* C19: after the pipeline has run on the scenario input from an empty store,
\* 1 row is stored (id "1", repo_owner "a", hour_of_day 10), 1 record was
\* counted as skipped, 1 was filtered as a duplicate, and the quality report
\* has total_events = 1.
C19_EndToEndScenario ==
    ScenarioDone =>
        /\ Cardinality(store) = 1
        /\ \A r \in store : /\ r.event_id = "1"
                            /\ r.repo_owner = <<"a">>
                            /\ r.hour_of_day = 10
        /\ skipped_events = 1
        /\ Len(feed) - Len(events) - skipped_events = 1
        /\ \A r \in ReportsOfRun : r.total_events = 1

(***************************************************************************)
(* C20  (SpecStore)                                                        *)
(***************************************************************************)
StoredIds == {r.event_id : r \in store}

\* C20: no step of connect, setup_database, load_to_duckdb,
\* run_quality_checks or close takes an event_id out of the table: the set of
\* stored event_ids after the step contains the set before it.
C20_StoredIdsNeverShrink == [][StoredIds \subseteq StoredIds']_vars

\* both ids are stored, since then the schema was set up again, and the
\* connection has been closed
C20_Witness ==
    /\ StoredIds = EventIds
    /\ view = "replaced"
    /\ conn = "closed"
    /\ last_call = Call("close", "None")

(***************************************************************************)
(* C21  (SpecRun)                                                          *)
(***************************************************************************)
\* the sum of the values of the function f
RECURSIVE SumOf(_)
SumOf(f) ==
    IF DOMAIN f = {} THEN 0
    ELSE LET k == CHOOSE x \in DOMAIN f : TRUE
         IN  f[k] + SumOf([x \in DOMAIN f \ {k} |-> f[x]])

\* what a report that is not {} says of the rows
ReportTellsOf(r, rows) ==
    /\ r.total_events = Cardinality(rows)
    /\ SumOf(r.events_by_type) = r.total_events
    /\ \A x \in rows : /\ Instant(r.date_range[1]) <= Instant(x.created_at)
                       /\ Instant(x.created_at) <= Instant(r.date_range[2])
    /\ rows # {} => \E x, y \in rows : r.date_range = <<x.created_at, y.created_at>>
    /\ r.unique_counts.repos = Cardinality({x.repo_name : x \in rows})
    /\ r.unique_counts.actors = Cardinality({x.actor_login : x \in rows})
    /\ r.unique_counts.event_types = Cardinality({x.event_type : x \in rows})

\* C21: a call of run_quality_checks changes neither the rows nor the table,
\* the indexes, the view or the connection, and a report that is not empty
\* holds the number of stored rows, per-type counts that sum to it, the least
\* and the greatest created_at, and the numbers of distinct repo_name,
\* actor_login and event_type.
C21_QualityChecksOnlyRead ==
    [][run_quality_checks =>
          /\ UNCHANGED <<store, schema, indexes, view, conn, registered>>
          /\ last_call'.res.keys # {} => ReportTellsOf(last_call'.res, store)]_vars

\* a report over two rows of one repository, created at different times
C21_Witness ==
    /\ last_call.op = "run_quality_checks"
    /\ last_call.res.keys # {}
    /\ last_call.res.total_events = 2
    /\ last_call.res.unique_counts.repos = 1
    /\ last_call.res.date_range[1] # last_call.res.date_range[2]

(***************************************************************************)
(* C22  (SpecRun)                                                          *)
(***************************************************************************)
\* the records of the feed from which row may stem: raw_event is the text of
\* the record
SourcesOf(row) ==
    {k \in 1..Len(feed) : IsDict(feed[k]) /\ json_dumps(feed[k], FALSE) = row.raw_event}

\* C22: when load_to_duckdb is entered, setup_database has been called, every
\* row handed to it stems from a record that passes validate_event, and the
\* Deduplicator has admitted those records: no two rows stem from records of
\* one fingerprint.
C22_LoaderGetsValidatedDeduplicatedRecords ==
    (rpc = "load" /\ lpc # "idle") =>
        /\ CallsOf("setup_database") # {}
        /\ \A k \in 1..Len(df) :
             \E j \in SourcesOf(df[k]) : validate_event(feed[j]) = Returned("True")
        /\ \A k, m \in 1..Len(df) :
             k # m => \A a \in SourcesOf(df[k]), b \in SourcesOf(df[m]) :
                         generate_event_hash(feed[a]) # generate_event_hash(feed[b])

(***************************************************************************)
(* C23  (Spec)                                                             *)
(***************************************************************************)
\* the index, from 0, of the chunk that holds row k of df
ChunkOf(k) == (k - 1) \div batch_size

\* C23: while a load runs and after it returned True, the chunks applied are
\* the slices of df in index order, chunk c holding the rows from c *
\* batch_size on, nothing is registered between two chunks, and for two rows
\* of one event_id that lie in different applied chunks the stored row of that
\* event_id is a row of the later chunk.
C23_ChunksInIndexOrderLaterChunkWins ==
    ((lpc = "loop" \/ (lpc = "done" /\ ret = "True")) /\ Len(chunks) > 0) =>
        /\ \A c \in 1..Len(chunks) :
             chunks[c] = SubSeq(df, (c - 1) * batch_size + 1,
                                Min(c * batch_size, Len(df)))
        /\ i = Len(chunks) * batch_size
        /\ ~registered
        /\ \A a, b \in 1..Min(i, Len(df)) :
             (/\ df[a].event_id = df[b].event_id
              /\ ChunkOf(a) < ChunkOf(b)
              /\ \A m \in 1..Min(i, Len(df)) :
                    df[m].event_id = df[b].event_id => ChunkOf(m) <= ChunkOf(b))
             => /\ \E m \in 1..Len(df) :
                     /\ ChunkOf(m) = ChunkOf(b)
                     /\ {x \in store : x.event_id = df[b].event_id} = {df[m]}
                /\ df[a] \in store =>
                     \E m \in 1..Len(df) : ChunkOf(m) = ChunkOf(b) /\ df[m] = df[a]

\* a load returned True after two chunks that carry one event_id with
\* different values: the row of the second chunk is stored, the row of the first
\* is not
C23_Witness ==
    /\ lpc = "done"
    /\ ret = "True"
    /\ Len(chunks) = 2
    /\ \E a \in 1..Len(chunks[1]), b \in 1..Len(chunks[2]) :
          /\ chunks[1][a].event_id = chunks[2][b].event_id
          /\ chunks[1][a] # chunks[2][b]
          /\ chunks[2][b] \in store
          /\ chunks[1][a] \notin store

(***************************************************************************)
(* C30  (Spec)                                                             *)
(***************************************************************************)
\* C30: whenever load_to_duckdb has returned, with True or with False, no
\* temp_events registration is left on the connection.
C30_NoRegistrationLeftOnReturn ==
    lpc = "done" => ~registered

(***************************************************************************)
(* C25  (SpecProcess)                                                      *)
(***************************************************************************)
\* the record passes validate_event and its created_at parses
PassesAndParses(ev) ==
    /\ validate_event(ev) = Returned("True")
    /\ ~isna(to_datetime(Get(ev, "created_at", Str(""))))

\* the positions of evs, in order, whose records pass and parse
RECURSIVE PassingPositions(_, _)
PassingPositions(evs, k) ==
    IF k > Len(evs) THEN <<>>
    ELSE (IF PassesAndParses(evs[k]) THEN <<k>> ELSE <<>>)
             \o PassingPositions(evs, k + 1)

\* C25: process_events comes to its return, and the rows it returns are the
\* transforms of the input records that pass validate_event and have a
\* parseable created_at, one row for each, in input order.
C25_RowsAreTransformsOfPassingRecordsInOrder ==
    ppc # "loop" =>
        /\ ppc = "done"
        /\ LET pos == PassingPositions(events, 1) IN
             /\ Len(processed_events) = Len(pos)
             /\ \A k \in 1..Len(pos) :
                  \E now \in Clock :
                     processed_events[k] = _transform_event(events[pos[k]], now).ret

(***************************************************************************)
(* C27  (SpecCollect)                                                      *)
(***************************************************************************)
\* C27: on every return of collect_github_events, the first call on the
\* collector or a later one, collected_events is the length of the returned
\* list, and the call returned because the list reached target_records or
\* because the repositories and the archive days were all read.
C27_CounterIsLengthOfReturnedList ==
    cpc = "done" =>
        /\ collected_events = Len(all_events)
        /\ \/ Len(all_events) >= target_records
           \/ repo_idx = NumRepos /\ days_back = ArchiveDays

(***************************************************************************)
(* C28  (SpecCollect)                                                      *)
(***************************************************************************)
\* C28: on a collector that had no call before, collect_github_events returns
\* at most target_records events, and collect_sample_data returns exactly
\* target_records events: the events of collect_github_events followed by as
\* many generated events as were missing.
C28_SampleDataReturnsExactlyTarget ==
    /\ (cpc = "done" /\ fresh) => Len(all_events) <= target_records
    /\ (cpc = "returned" /\ fresh) =>
          /\ Len(real_events) = target_records
          /\ SubSeq(real_events, 1, Len(all_events)) = all_events
          /\ \A k \in (Len(all_events) + 1)..Len(real_events) :
                IsValidEvent(real_events[k]) /\ real_events[k] \notin FeedEvents

\* collect_sample_data returned on a fresh collector with one event of the
\* archive and one generated event
C28_Witness ==
    /\ cpc = "returned"
    /\ fresh
    /\ target_records = 2
    /\ Len(archive_events) = 1
    /\ Len(all_events) = 1
    /\ Len(real_events) = 2
    /\ real_events[2] \notin FeedEvents

(***************************************************************************)
(* C26  (SpecRun)                                                          *)
(***************************************************************************)
\* the load of the run has returned True
LoadSucceeded == \E k \in CallsOf("load_to_duckdb") : trace[k].res = "True"

\* C26: after a run over the empty store whose load returned True, the stored
\* rows are as many as the distinct event_id values of the transformed rows,
\* one row for each of these values, and never more than the records the
\* run processed.
C26_StoredRowsAreDistinctEventIds ==
    LoadSucceeded =>
        /\ Cardinality(store) = Cardinality(IdsOf(processed_events))
        /\ {x.event_id : x \in store} = IdsOf(processed_events)
        /\ Cardinality(store) <= Len(events)

\* the Deduplicator admitted two records of different fingerprints and the
\* same id, both were transformed, and one row is stored
C26_Witness ==
    /\ LoadSucceeded
    /\ rpc = "ended"
    /\ events = Collected(feed)
    /\ Len(events) = 2
    /\ generate_event_hash(events[1]) # generate_event_hash(events[2])
    /\ Len(processed_events) = 2
    /\ processed_events[1].event_id = processed_events[2].event_id
    /\ Cardinality(store) = 1

(***************************************************************************)
(* C29  (SpecRun)                                                          *)
(***************************************************************************)
StepOrder == <<"run_ingestion", "run_processing", "run_analysis", "run_visualization">>

\* the step returned a result that holds something
NonEmptyResult(v) ==
    \/ v.t = "list" /\ v.n > 0
    \/ v.t = "report" /\ v.keys # {}
    \/ v.t = "dict" /\ Len(v.d) > 0

\* C29: the steps main() has run are the first steps of ingestion, processing,
\* analysis, visualization in that order; every step but the last one run
\* returned a non-empty result; no DataProcessor call was made after a failed
\* ingestion; main() returns True only after all four steps returned a
\* non-empty result, and returns False when the last step it ran did not.
C29_MainRunsStepsInOrderUntilOneFails ==
    /\ Len(stages) <= Len(StepOrder)
    /\ \A k \in 1..Len(stages) : stages[k].step = StepOrder[k]
    /\ \A k \in 1..(Len(stages) - 1) : NonEmptyResult(stages[k].res)
    /\ (stages # <<>> /\ ~NonEmptyResult(stages[1].res)) => trace = <<>>
    /\ main_ret = "True" =>
          Len(stages) = 4 /\ \A k \in 1..4 : NonEmptyResult(stages[k].res)
    /\ (main_ret # "none" /\ \E k \in 1..Len(stages) : ~NonEmptyResult(stages[k].res))
          => main_ret = "False"
    /\ main_ret = "False" => ~NonEmptyResult(stages[Len(stages)].res)

\* ingestion and processing returned results, the analysis returned None, and
\* main() returned False without running the visualization
C29_Witness ==
    /\ main_ret = "False"
    /\ Len(stages) = 3
    /\ stages[3] = Stage("run_analysis", None)
    /\ NonEmptyResult(stages[2].res)

(***************************************************************************)
(* C24  (SpecWriters)                                                      *)
(***************************************************************************)
\* the store st after the rows of batch were written over it: each event_id
\* of the batch holds the batch's last row for it, the other rows stay
WrittenOver(st, batch, st2) ==
    /\ \A id \in IdsOf(batch) :
          {x \in st2 : x.event_id = id} = {LastRowOf(batch, id)}
    /\ \A x \in st : x.event_id \notin IdsOf(batch) => x \in st2
    /\ \A x \in st2 : x.event_id \notin IdsOf(batch) => x \in st

\* the two loads have returned True
BothLoaded ==
    /\ lpc = "done"
    /\ ret = "True"
    /\ other_lpc = "done"
    /\ other_ret = "True"

\* the final store of the two calls made one after the other
OneAfterTheOther(first, second) == UpsertBatch(UpsertBatch({}, first), second)

\* C24: a chunk upsert of either run is applied to the store as the other run
\* left it, whichever position the other run is at, and its rows replace the
\* rows stored for their event_ids (last writer wins); when both loads have
\* returned True and the two runs share no event_id, the final store is the
\* store of the two loads made one after the other, in either order.
C24_LastWriterWinsDisjointRunsCommute ==
    /\ [][/\ LoadChunk => WrittenOver(store, Last(chunks'), store')
          /\ OtherLoadChunk => WrittenOver(store, Last(other_chunks'), store')]_vars
    /\ [](BothLoaded /\ IdsOf(df) \cap IdsOf(other_df) = {}
            => /\ store = OneAfterTheOther(df, other_df)
               /\ store = OneAfterTheOther(other_df, df))

\* both loads returned True, the runs share event_ids, and the final store is
\* the store of neither order of the two loads: for one event_id the row of
\* the first run was written last, for another the row of the second run
C24_Witness ==
    /\ BothLoaded
    /\ IdsOf(df) \cap IdsOf(other_df) # {}
    /\ store # OneAfterTheOther(df, other_df)
    /\ store # OneAfterTheOther(other_df, df)

====
